---- MODULE Spec2Model ----
(***************************************************************************)
(* Model of borsen-news: the article store (src/borsen-news/db.py and      *)
(* db_new.py) and the functions of fetch_and_translate.py that feed it.    *)
(* The store is one DuckDB table, `articles`; its operations are           *)
(* save_to_db, cleanup_old_articles, delete_all_articles, init_database    *)
(* and load_latest.  fetch_articles polls the feeds; scrape_full_article,  *)
(* translate_text and _split_content_into_chunks are called on one value.  *)
(*                                                                         *)
(* In the store time is counted in whole days.  A data frame is a record   *)
(* of its column names and its rows; a row is an article record.  The      *)
(* table is a bag of rows (a function from the article universe to a       *)
(* count), because the code relies on no row order except in load_latest's *)
(* ORDER BY.                                                               *)
(***************************************************************************)
EXTENDS Integers, Sequences, FiniteSets, TLC

VARIABLES tableExists, columns, rows, now, last, ret, pc, loc, fetch, call,
          sched, pipeline

vars == <<tableExists, columns, rows, now, last, ret, pc, loc, fetch, call,
          sched, pipeline>>

(***************************************************************************)
(* Bounds of the model.                                                    *)
(***************************************************************************)
MaxRows == 4       \* most rows the table holds
MaxBatch == 2      \* most rows of one data frame passed to save_to_db
MaxTicks == 3      \* days that pass after the start
MaxLegacyRows == 1 \* most rows of a table left by an earlier version
MaxEntries == 3    \* most entries the feeds deliver in one poll, all together
MaxRuns == 5       \* most runs of one character in a content string
MaxPending == 3    \* most jobs waiting in the scheduler's pending list
MaxFetches == 1    \* most job runs counted in fetch_count

(***************************************************************************)
(* Program constants.                                                      *)
(***************************************************************************)
RetentionDays == 7     \* timedelta(days=7) in cleanup_old_articles
DefaultN == 50         \* load_latest(n=50)

\* SQL NULL / pandas NaN: a value outside the text domain.
NULL == "<null>"

\* The columns of the table as CREATE TABLE lists them.
TableColumns ==
  <<"title", "summary", "link", "published", "feed", "translated_summary",
    "content", "word_count", "scraped_at", "naevnte_emner",
    "naevnte_virksomheder">>

\* The columns of the data frame the pipeline builds: the keys of the dict of
\* _process_feed_entries, then the column the caller adds.
PipelineColumns ==
  <<"title", "summary", "link", "published", "feed", "content", "word_count",
    "url", "scraped_at", "translated_summary">>

\* The columns init_database and save_to_db probe for and add when missing;
\* `columns` holds those of them the table has.
OptionalColumns ==
  {"feed", "translated_summary", "content", "word_count", "scraped_at",
   "naevnte_emner", "naevnte_virksomheder"}

\* The probe SELECT <column> FROM articles LIMIT 1 on a table without the
\* column: DuckDB reports a column that is not in the table as a Binder
\* Error (duckdb.BinderException); a Catalog Error is what a missing table
\* gives.  The probes are wrapped in `except duckdb.CatalogException`.
MissingColumnError == "BinderException"
ProbeHandler == "CatalogException"

\* The ALTER TABLE ... ADD COLUMN of the handler runs only when the handler
\* catches the probe's error; otherwise the error leaves the probe loop.
ProbesRaise(cols) ==
  cols # OptionalColumns /\ MissingColumnError # ProbeHandler

FrameShapes == {TableColumns, PipelineColumns}

\* The articles the callers pass.  Art1 and Art2 differ only in a null
\* against an empty summary (and in published); Art3 and Art4 have different
\* triples whose '|'-joined texts coincide.  published is a day number.
Art1 == [title |-> "a",   summary |-> NULL,  link |-> "l", published |-> 9]
Art2 == [title |-> "a",   summary |-> "",    link |-> "l", published |-> 4]
Art3 == [title |-> "a|b", summary |-> "c",   link |-> "l", published |-> 2]
Art4 == [title |-> "a",   summary |-> "b|c", link |-> "l", published |-> 0]

Articles == {Art1, Art2, Art3, Art4}

SeqsUpTo(S, n) == UNION {[1..k -> S] : k \in 0..n}

DataFrames == [cols : FrameShapes, rows : SeqsUpTo(Articles, MaxBatch)]

NoFrame == [cols |-> TableColumns, rows |-> <<>>]

(***************************************************************************)
(* Bags of rows.                                                           *)
(***************************************************************************)
EmptyTable == [a \in Articles |-> 0]

RECURSIVE SumOver(_, _)
SumOver(f, S) ==
  IF S = {} THEN 0
  ELSE LET a == CHOOSE x \in S : TRUE IN f[a] + SumOver(f, S \ {a})

\* SELECT COUNT(*) FROM articles
Count(t) == SumOver(t, Articles)

Occurrences(s, a) == Cardinality({i \in 1..Len(s) : s[i] = a})

\* INSERT INTO articles SELECT * FROM frame: every row of the frame is appended.
InsertRows(t, s) == [a \in Articles |-> t[a] + Occurrences(s, a)]

(***************************************************************************)
(* The duplicate key of save_to_db.                                        *)
(***************************************************************************)
\* The key built without fillna: a null is left in place.
FillNaSkipped(v) == v

\* DataFrame.fillna(""): a null becomes the empty string.
FillNa(v) == IF v = NULL THEN "" ELSE v

\* Series.astype(str): text stays, a null would read "None".
AsStr(v) == IF v = NULL THEN "None" ELSE v

\* title + "|" + summary + "|" + link over the fillna'd frame.
MergedKey(a) ==
  AsStr(FillNa(a.title)) \o "|" \o AsStr(FillNa(a.summary)) \o "|"
    \o AsStr(FillNa(a.link))

\* existing_keys: the keys of the rows SELECTed from the table.
ExistingKeys(t) == {MergedKey(a) : a \in {x \in Articles : t[x] > 0}}

\* The mask left out: every row of the frame counts as new.
NewRowsUnmasked(existing, isEmpty, s) == s

\* df[mask] with mask = ~new_keys.isin(existing_keys); when the table had no
\* row (existing_articles.empty) the whole frame is inserted.
NewRows(existing, isEmpty, s) ==
  IF isEmpty THEN s
  ELSE SelectSeq(s, LAMBDA a : MergedKey(a) \notin existing)

\* INSERT ... SELECT * binds the frame's columns by position: DuckDB rejects
\* a frame whose column count differs from the table's.
InsertRaises(df) == Len(df.cols) # Len(TableColumns)

(***************************************************************************)
(* Retention.                                                              *)
(***************************************************************************)
\* The comparison with <= in place of <.
IsOldOrAtCutoff(a, t) == a.published <= t - RetentionDays

\* DELETE FROM articles WHERE published < cutoff_date
IsOld(a, t) == a.published < t - RetentionDays

\* A DELETE that matches no row.
SweepNothing(t, time) == t

Sweep(t, time) == [a \in Articles |-> IF IsOld(a, time) THEN 0 ELSE t[a]]

Swept(t, time) == [a \in Articles |-> IF IsOld(a, time) THEN t[a] ELSE 0]

(***************************************************************************)
(* Results and the record of the last call.                                *)
(***************************************************************************)
Returned(v) == [kind |-> "return", val |-> v]
Raised == [kind |-> "raise", val |-> <<>>]

\* What the last call was and what it did to the table: the frame it was
\* given, the table before it, the rows its INSERT appended, the rows its
\* DELETE or DROP removed, whether its INSERT (or, in save_to_db, a column
\* probe before it) raised, whether it is a
\* save_to_db that directly follows a save_to_db of the same frame, and if so
\* how many rows that earlier call removed, and whether it directly follows a
\* delete_all_articles.
Call(op, df, failed, inserted, removed) ==
  LET repeat == op = "Save" /\ last.op = "Save" /\ last.df = df
  IN  [op |-> op, df |-> df, existed |-> tableExists, before |-> rows,
       insertFailed |-> failed, inserted |-> inserted, removed |-> removed,
       repeat |-> repeat,
       firstRemoved |-> IF repeat THEN Count(last.removed) ELSE 0,
       afterDeleteAll |-> (last.op = "DeleteAll")]

(***************************************************************************)
(* fetch_articles of fetch_and_translate.py.  Time is counted in whole     *)
(* hours here.  A feed entry's `published` is the text the feed wrote: not *)
(* a date at all, a date without a zone (read as it stands), or a date     *)
(* with a zone offset.                                                     *)
(***************************************************************************)
CutoffHours == 24      \* timedelta(hours=24) in fetch_articles

\* The first three feeds of RSS_FEEDS, in list order.
Feeds == <<"https://borsen.dk/rss", "https://borsen.dk/rss/breaking",
           "https://borsen.dk/rss/baeredygtig">>

\* The instant of the poll, in hours UTC, and the UTC offsets of the hosts
\* the poll runs on: datetime.now() reads the host's local wall clock.
PollClock == 48
UtcOffsets == {0, 2}

LocalNow(offset) == PollClock + offset

Unparseable == [kind |-> "text", wall |-> 0, offset |-> 0]
Aware(age) == [kind |-> "aware", wall |-> PollClock - age + 1, offset |-> 1]
Naive(wall) == [kind |-> "naive", wall |-> wall, offset |-> 0]

PublishedValues ==
  {Unparseable} \cup {Aware(age) : age \in {1, 23, 25}}
                \cup {Naive(PollClock - CutoffHours)}

Entries == [title : {"a", "b"}, summary : {"s"}, link : {"l"},
            published : PublishedValues]

\* pd.to_datetime(text, errors="coerce"): NaT for a text that is no date.
NaT == [isNaT |-> TRUE, wall |-> 0, aware |-> FALSE, offset |-> 0]

ToDatetime(p) ==
  IF p.kind = "text" THEN NaT
  ELSE [isNaT |-> FALSE, wall |-> p.wall, aware |-> (p.kind = "aware"),
        offset |-> p.offset]

\* Timestamp.tz_convert(None): the UTC wall time, without a zone.
TzConvertNone(ts) ==
  [ts EXCEPT !.wall = ts.wall - ts.offset, !.aware = FALSE, !.offset = 0]

\* published_date as it is compared and stored (lines 117-124).
PublishedDate(entry) ==
  LET ts == ToDatetime(entry.published)
  IN  IF ~ts.isNaT /\ ts.aware THEN TzConvertNone(ts) ELSE ts

\* cutoff_time = datetime.now() - timedelta(hours=24)
CutoffTime(offset) == LocalNow(offset) - CutoffHours

\* pd.notna(published_date) and published_date >= cutoff_time
PassesFilter(entry, cutoff) ==
  /\ ~PublishedDate(entry).isNaT
  /\ PublishedDate(entry).wall >= cutoff

\* The dict appended for an entry that passes.
ArticleOf(entry, feed, offset) ==
  [title |-> entry.title, summary |-> entry.summary, link |-> entry.link,
   published |-> PublishedDate(entry).wall, feed |-> feed, content |-> "",
   word_count |-> 0, url |-> entry.link, scraped_at |-> LocalNow(offset)]

ArticlesOf(entries, feed, offset) ==
  [k \in 1..Len(entries) |-> ArticleOf(entries[k], feed, offset)]

ProcessFeedEntries(entries, feed, cutoff, offset) ==
  LET Passes(entry) == PassesFilter(entry, cutoff)
  IN  ArticlesOf(SelectSeq(entries, Passes), feed, offset)

\* subset=["title", "summary", "link"]
DedupKey(a) == <<a.title, a.summary, a.link>>

\* The elements of s at the positions in I, in the order of s.
TakeIndices(s, I) ==
  LET nth(k) == CHOOSE i \in I : Cardinality({j \in I : j < i}) = k - 1
  IN  [k \in 1..Cardinality(I) |-> s[nth(k)]]

\* keep="first"
FirstOccurrences(s) ==
  {i \in 1..Len(s) : \A j \in 1..(i - 1) : DedupKey(s[j]) # DedupKey(s[i])}

\* keep="last"
LastOccurrences(s) ==
  {i \in 1..Len(s) :
     \A j \in (i + 1)..Len(s) : DedupKey(s[j]) # DedupKey(s[i])}

\* df.drop_duplicates(subset=[...], keep="last")
DropDuplicates(s) == TakeIndices(s, LastOccurrences(s))

\* The state of one fetch_articles call: where it is, the host's offset, the
\* index of the next feed, the list `articles`, and what the last feed
\* delivered and contributed; for the claims, the feeds tried, the feeds that
\* raised, the entries of the feeds that did not, and the entry count.
NoFetch == [pc |-> "idle", offset |-> 0, i |-> 1, articles |-> <<>>,
            parsed |-> <<>>, got |-> <<>>, raised |-> FALSE, polled |-> {},
            failed |-> {}, seen |-> {}, count |-> 0, df |-> <<>>]

(***************************************************************************)
(* ArticleScheduler of scheduler.py.  The instance holds its own fields    *)
(* and a BackgroundScheduler, of which the model keeps the state, the jobs *)
(* with id 'frequent_fetch' waiting in the pending list (add_job before    *)
(* start) and those in the job store.  The callers are the script threads  *)
(* of two dashboard sessions, which share the instance of get_scheduler.   *)
(***************************************************************************)
Sessions == {"session1", "session2"}

\* ArticleScheduler.__init__
NewScheduler ==
  [is_running |-> FALSE, state |-> "stopped", pending |-> 0, stored |-> 0,
   last_fetch_time |-> NULL, last_fetch_status |-> "Not started",
   fetch_count |-> 0]

\* The instance, where each session's start_scheduler call stands, and for
\* the claims the last call made and the instance before it.
NoSched == [obj |-> NewScheduler, at |-> [s \in Sessions |-> "idle"],
            op |-> "none", before |-> NewScheduler]

NoCall == [fn |-> "none"]

Procs == {"scheduler", "dashboard"}

\* The local variables of one running save_to_db: the frame, the keys read
\* from the table (existing_keys) and whether the table had no row, the rows
\* inserted (df_new), the counts, and whether the
\* other caller had read its keys and not yet inserted when this one inserted.
Idle == [df |-> NoFrame, existing |-> {}, isEmpty |-> TRUE, inserted |-> <<>>,
         skipped |-> 0, added |-> 0, otherHadRead |-> FALSE]

\* One run of the pipeline by the scheduler's job or by the dashboard's fetch
\* handler: where it stands, the credentials of its environment, its frame,
\* the row to scrape or translate next and the result of its save_to_db; for
\* the claims the stages it has entered, what the site answered to each
\* scrape and the provider to each translation, the frames handed to
\* save_to_db and their number.
IdleRun == [pc |-> "idle", env |-> {}, df |-> <<>>, k |-> 1,
            result |-> <<>>, log |-> <<>>, outcomes |-> <<>>,
            replies |-> <<>>, batch |-> <<>>, saves |-> 0]

NoRun == [p \in Procs |-> IdleRun]

Init ==
  /\ tableExists = FALSE
  /\ columns = {}
  /\ rows = EmptyTable
  /\ now = RetentionDays
  /\ last = [op |-> "none", df |-> NoFrame, existed |-> FALSE,
             before |-> EmptyTable, insertFailed |-> FALSE,
             inserted |-> <<>>, removed |-> EmptyTable, repeat |-> FALSE,
             firstRemoved |-> 0, afterDeleteAll |-> FALSE]
  /\ ret = Returned(<<>>)
  /\ pc = [p \in Procs |-> "idle"]
  /\ loc = [p \in Procs |-> Idle]
  /\ fetch = NoFetch
  /\ call = NoCall
  /\ sched = NoSched
  /\ pipeline = NoRun

(***************************************************************************)
(* cleanup_old_articles: raises when the table is missing (the COUNT query *)
(* fails); otherwise deletes the old rows and returns how many went.       *)
(***************************************************************************)
CleanupOld ==
  /\ last' = Call("CleanupOld", NoFrame, FALSE, <<>>,
                  IF tableExists THEN Swept(rows, now) ELSE EmptyTable)
  /\ IF tableExists
       THEN /\ rows' = Sweep(rows, now)
            /\ ret' = Returned(<<Count(rows) - Count(Sweep(rows, now))>>)
       ELSE /\ rows' = rows
            /\ ret' = Raised
  /\ UNCHANGED <<tableExists, columns, now, pc, loc, fetch, call, sched, pipeline>>

(***************************************************************************)
(* save_to_db, run without interruption.                                   *)
(***************************************************************************)
\* What one save_to_db does to the store, its result and the call record.
SaveToDbEffect(df) ==
  IF Len(df.rows) = 0
    THEN \* if df is None or len(df) == 0: return 0, 0, 0
         /\ last' = Call("Save", df, FALSE, <<>>, EmptyTable)
         /\ ret' = Returned(<<0, 0, 0>>)
         /\ UNCHANGED <<tableExists, columns, rows>>
    ELSE LET isEmpty == Count(rows) = 0
             dfNew == NewRows(ExistingKeys(rows), isEmpty, df.rows)
             \* CREATE TABLE IF NOT EXISTS, then the seven column probes
             created == IF tableExists THEN columns ELSE OptionalColumns
             failed == \/ ProbesRaise(created)
                       \/ Len(dfNew) > 0 /\ InsertRaises(df)
             inserted == InsertRows(rows, dfNew)
         IN  /\ tableExists' = TRUE
             /\ columns' = IF ProbesRaise(created) THEN created
                            ELSE OptionalColumns
             /\ IF failed
                  THEN \* except Exception: return 0, 0, 0
                       /\ rows' = rows
                       /\ ret' = Returned(<<0, 0, 0>>)
                       /\ last' = Call("Save", df, TRUE, <<>>, EmptyTable)
                  ELSE \* deleted_count = cleanup_old_articles()
                       /\ rows' = Sweep(inserted, now)
                       /\ ret' = Returned(
                            <<Count(inserted) - Count(Sweep(inserted, now)),
                              IF isEmpty THEN 0
                                ELSE Len(df.rows) - Len(dfNew),
                              Len(dfNew)>>)
                       /\ last' = Call("Save", df, FALSE, dfNew,
                                       Swept(inserted, now))

SaveToDb(df) ==
  /\ Count(rows) + Len(df.rows) <= MaxRows
  /\ SaveToDbEffect(df)
  /\ UNCHANGED <<now, pc, loc, fetch, call, sched, pipeline>>

\* delete_all_articles without its CREATE TABLE: the table stays dropped.
DeleteAllNotRecreating ==
  /\ last' = Call("DeleteAll", NoFrame, FALSE, <<>>, rows)
  /\ ret' = Returned(<<IF tableExists THEN Count(rows) ELSE 0>>)
  /\ tableExists' = FALSE
  /\ columns' = {}
  /\ rows' = EmptyTable
  /\ UNCHANGED <<now, pc, loc, fetch, call, sched, pipeline>>

(***************************************************************************)
(* delete_all_articles: counts the rows (0 when the table is missing),     *)
(* drops the table and creates it again.                                   *)
(***************************************************************************)
DeleteAll ==
  /\ last' = Call("DeleteAll", NoFrame, FALSE, <<>>, rows)
  /\ ret' = Returned(<<IF tableExists THEN Count(rows) ELSE 0>>)
  /\ tableExists' = TRUE
  /\ columns' = OptionalColumns
  /\ rows' = EmptyTable
  /\ UNCHANGED <<now, pc, loc, fetch, call, sched, pipeline>>

\* init_database with CREATE OR REPLACE TABLE: the table is emptied.
InitDatabaseReplacing ==
  /\ last' = Call("EnsureSchema", NoFrame, FALSE, <<>>, EmptyTable)
  /\ ret' = Returned(<<TRUE>>)
  /\ tableExists' = TRUE
  /\ columns' = OptionalColumns
  /\ rows' = EmptyTable
  /\ UNCHANGED <<now, pc, loc, fetch, call, sched, pipeline>>

(***************************************************************************)
(* init_database: CREATE TABLE IF NOT EXISTS and the column probes; the    *)
(* rows are not touched.  Returns True, or False when an error left the    *)
(* probe loop (the outer `except Exception`).                              *)
(***************************************************************************)
\* The columns of the table after init_database.
EnsuredColumns ==
  LET created == IF tableExists THEN columns ELSE OptionalColumns
  IN  IF ProbesRaise(created) THEN created ELSE OptionalColumns

InitDatabase ==
  /\ last' = Call("EnsureSchema", NoFrame, FALSE, <<>>, EmptyTable)
  /\ ret' = Returned(<<EnsuredColumns = OptionalColumns>>)
  /\ tableExists' = TRUE
  /\ columns' = EnsuredColumns
  /\ UNCHANGED <<rows, now, pc, loc, fetch, call, sched, pipeline>>

(***************************************************************************)
(* SELECT * FROM articles ORDER BY published DESC LIMIT n                  *)
(***************************************************************************)
RECURSIVE OrderByPublishedDesc(_)
OrderByPublishedDesc(t) ==
  IF Count(t) = 0 THEN <<>>
  ELSE LET present == {a \in Articles : t[a] > 0}
           top == CHOOSE a \in present :
                    \A b \in present : b.published <= a.published
       IN  <<top>> \o OrderByPublishedDesc([t EXCEPT ![top] = @ - 1])

Limit(s, n) == SubSeq(s, 1, IF Len(s) < n THEN Len(s) ELSE n)

LoadLimits == {1, DefaultN}

\* load_latest of db.py: the query runs unguarded, so a missing table raises
\* duckdb.CatalogException out of the call.
LoadLatest(n) ==
  /\ last' = Call("LoadLatest", NoFrame, FALSE, <<>>, EmptyTable)
  /\ ret' = IF tableExists
              THEN Returned(Limit(OrderByPublishedDesc(rows), n))
              ELSE Raised
  /\ UNCHANGED <<tableExists, columns, rows, now, pc, loc, fetch, call,
                 sched, pipeline>>

\* load_latest of db_new.py: init_database() first, and the query's
\* CatalogException is caught and answered with an empty frame.
LoadLatestNew(n) ==
  /\ last' = Call("LoadLatestNew", NoFrame, FALSE, <<>>, EmptyTable)
  /\ ret' = Returned(Limit(OrderByPublishedDesc(rows), n))
  /\ tableExists' = TRUE
  /\ columns' = EnsuredColumns
  /\ UNCHANGED <<rows, now, pc, loc, fetch, call, sched, pipeline>>

Tick ==
  /\ now < RetentionDays + MaxTicks
  /\ now' = now + 1
  /\ last' = Call("Tick", NoFrame, FALSE, <<>>, EmptyTable)
  /\ UNCHANGED <<tableExists, columns, rows, ret, pc, loc, fetch, call,
                 sched, pipeline>>

(***************************************************************************)
(* save_to_db statement by statement, for two callers in one process (the  *)
(* scheduler's job thread and the dashboard's script thread).  Each        *)
(* con.execute is its own transaction; nothing in db.py holds a lock       *)
(* across them.                                                            *)
(***************************************************************************)
Other(p) == CHOOSE q \in Procs : q # p

\* Lines 108-177: the empty-frame return, CREATE TABLE IF NOT EXISTS, and the
\* SELECT of the existing triples.
SaveBegin(p, df) ==
  /\ pc[p] = "idle"
  /\ Count(rows) + Len(df.rows) + Len(loc[Other(p)].df.rows) <= MaxRows
  /\ IF Len(df.rows) = 0
       THEN /\ ret' = Returned(<<0, 0, 0>>)
            /\ loc' = [loc EXCEPT ![p] = Idle]
            /\ UNCHANGED <<tableExists, columns, pc>>
       ELSE LET created == IF tableExists THEN columns ELSE OptionalColumns
            IN  /\ tableExists' = TRUE
                /\ IF ProbesRaise(created)
                     THEN /\ columns' = created
                          /\ ret' = Returned(<<0, 0, 0>>)
                          /\ loc' = [loc EXCEPT ![p] = Idle]
                          /\ UNCHANGED pc
                     ELSE /\ columns' = OptionalColumns
                          /\ loc' = [loc EXCEPT ![p] =
                                 [Idle EXCEPT !.df = df,
                                              !.existing = ExistingKeys(rows),
                                              !.isEmpty = (Count(rows) = 0)]]
                          /\ pc' = [pc EXCEPT ![p] = "insert"]
                          /\ UNCHANGED ret
  /\ UNCHANGED <<rows, now, last, fetch, call, sched, pipeline>>

\* Lines 179-212: the mask over the keys read earlier, then the INSERT.
SaveInsert(p) ==
  /\ pc[p] = "insert"
  /\ LET df == loc[p].df
         dfNew == NewRows(loc[p].existing, loc[p].isEmpty, df.rows)
         failed == Len(dfNew) > 0 /\ InsertRaises(df)
     IN  IF failed
           THEN /\ ret' = Returned(<<0, 0, 0>>)
                /\ pc' = [pc EXCEPT ![p] = "idle"]
                /\ loc' = [loc EXCEPT ![p] = Idle]
                /\ UNCHANGED rows
           ELSE /\ rows' = InsertRows(rows, dfNew)
                /\ pc' = [pc EXCEPT ![p] = "sweep"]
                /\ loc' = [loc EXCEPT ![p].df = NoFrame,
                                      ![p].existing = {},
                                      ![p].inserted = dfNew,
                                      ![p].skipped = IF loc[p].isEmpty THEN 0
                                                     ELSE Len(df.rows) - Len(dfNew),
                                      ![p].added = Len(dfNew),
                                      ![p].otherHadRead =
                                         (pc[Other(p)] = "insert")]
                /\ UNCHANGED ret
  /\ UNCHANGED <<tableExists, columns, now, last, fetch, call, sched, pipeline>>

\* Lines 215-216: cleanup_old_articles() and the return of the counts.
SaveSweep(p) ==
  /\ pc[p] = "sweep"
  /\ rows' = Sweep(rows, now)
  /\ ret' = Returned(<<Count(rows) - Count(Sweep(rows, now)), loc[p].skipped,
                        loc[p].added>>)
  /\ pc' = [pc EXCEPT ![p] = "idle"]
  /\ loc' = [loc EXCEPT ![p] = Idle]
  /\ UNCHANGED <<tableExists, columns, now, last, fetch, call, sched, pipeline>>

ClockTick ==
  /\ now < RetentionDays + MaxTicks
  /\ now' = now + 1
  /\ UNCHANGED <<tableExists, columns, rows, last, ret, pc, loc, fetch, call,
                 sched, pipeline>>

NextConcurrent ==
  \/ \E p \in Procs, df \in DataFrames : SaveBegin(p, df)
  \/ \E p \in Procs : SaveInsert(p)
  \/ \E p \in Procs : SaveSweep(p)
  \/ ClockTick

SpecConcurrent == Init /\ [][NextConcurrent]_vars

Next ==
  \/ \E df \in DataFrames : SaveToDb(df)
  \/ CleanupOld
  \/ DeleteAll
  \/ InitDatabase
  \/ \E n \in LoadLimits : LoadLatest(n)
  \/ \E n \in LoadLimits : LoadLatestNew(n)
  \/ Tick

Spec == Init /\ [][Next]_vars

(***************************************************************************)
(* The calls that create or probe the schema, on a database file left by   *)
(* an earlier version: the articles table exists with any subset of the    *)
(* optional columns and a few rows.                                        *)
(***************************************************************************)
LegacyTables == {t \in [Articles -> 0..1] : Count(t) <= MaxLegacyRows}

InitLegacy ==
  /\ tableExists = TRUE
  /\ columns \in SUBSET OptionalColumns
  /\ rows \in LegacyTables
  /\ now = RetentionDays
  /\ last = [op |-> "none", df |-> NoFrame, existed |-> TRUE,
             before |-> rows, insertFailed |-> FALSE,
             inserted |-> <<>>, removed |-> EmptyTable, repeat |-> FALSE,
             firstRemoved |-> 0, afterDeleteAll |-> FALSE]
  /\ ret = Returned(<<>>)
  /\ pc = [p \in Procs |-> "idle"]
  /\ loc = [p \in Procs |-> Idle]
  /\ fetch = NoFetch
  /\ call = NoCall
  /\ sched = NoSched
  /\ pipeline = NoRun

NextLegacy ==
  \/ InitDatabase
  \/ \E df \in DataFrames : SaveToDb(df)
  \/ \E n \in LoadLimits : LoadLatestNew(n)
  \/ DeleteAll

SpecLegacy == InitLegacy /\ [][NextLegacy]_vars

(***************************************************************************)
(* fetch_articles, one feed at a time (lines 87-93), then the dedup (lines *)
(* 95-100).  What a feed delivers, and whether parsing or processing it    *)
(* raises, are inputs.  A feed that raises adds nothing, whatever it held   *)
(* (articles.extend runs only when _process_feed_entries has returned), so *)
(* its entries are left out of the inputs.                                 *)
(***************************************************************************)
\* The loop with `break` in place of `continue` in the except branch.
PollFeedAborting(entries, raises) ==
  /\ fetch.pc = "poll"
  /\ fetch.i <= Len(Feeds)
  /\ fetch.count + Len(entries) <= MaxEntries
  /\ raises => entries = <<>>
  /\ LET feed == Feeds[fetch.i]
         got == IF raises THEN <<>>
                ELSE ProcessFeedEntries(entries, feed,
                                        CutoffTime(fetch.offset), fetch.offset)
     IN  fetch' = [fetch EXCEPT
           !.i = IF raises THEN Len(Feeds) + 1 ELSE @ + 1,
           !.articles = @ \o got,
           !.parsed = entries, !.got = got, !.raised = raises,
           !.polled = @ \cup {feed},
           !.failed = IF raises THEN @ \cup {feed} ELSE @,
           !.seen = IF raises THEN @
                    ELSE @ \cup {[feed |-> feed, entry |-> entries[k]] :
                                   k \in 1..Len(entries)},
           !.count = @ + Len(entries)]
  /\ UNCHANGED <<tableExists, columns, rows, now, last, ret, pc, loc, call,
                 sched, pipeline>>

PollFeed(entries, raises) ==
  /\ fetch.pc = "poll"
  /\ fetch.i <= Len(Feeds)
  /\ fetch.count + Len(entries) <= MaxEntries
  /\ raises => entries = <<>>
  /\ LET feed == Feeds[fetch.i]
         got == IF raises THEN <<>>
                ELSE ProcessFeedEntries(entries, feed,
                                        CutoffTime(fetch.offset), fetch.offset)
     IN  fetch' = [fetch EXCEPT
           !.i = @ + 1,
           !.articles = @ \o got,
           !.parsed = entries, !.got = got, !.raised = raises,
           !.polled = @ \cup {feed},
           !.failed = IF raises THEN @ \cup {feed} ELSE @,
           !.seen = IF raises THEN @
                    ELSE @ \cup {[feed |-> feed, entry |-> entries[k]] :
                                   k \in 1..Len(entries)},
           !.count = @ + Len(entries)]
  /\ UNCHANGED <<tableExists, columns, rows, now, last, ret, pc, loc, call,
                 sched, pipeline>>

\* Lines 95-100: an empty frame when nothing was collected, else the frame
\* of the articles without the earlier duplicates.
Deduplicate ==
  /\ fetch.pc = "poll"
  /\ fetch.i > Len(Feeds)
  /\ fetch' = [fetch EXCEPT
       !.pc = "scrape",
       !.df = IF fetch.articles = <<>> THEN <<>>
              ELSE DropDuplicates(fetch.articles)]
  /\ UNCHANGED <<tableExists, columns, rows, now, last, ret, pc, loc, call,
                 sched, pipeline>>

InitFetch ==
  /\ tableExists = FALSE
  /\ columns = {}
  /\ rows = EmptyTable
  /\ now = RetentionDays
  /\ last = [op |-> "none", df |-> NoFrame, existed |-> FALSE,
             before |-> EmptyTable, insertFailed |-> FALSE,
             inserted |-> <<>>, removed |-> EmptyTable, repeat |-> FALSE,
             firstRemoved |-> 0, afterDeleteAll |-> FALSE]
  /\ ret = Returned(<<>>)
  /\ pc = [p \in Procs |-> "idle"]
  /\ loc = [p \in Procs |-> Idle]
  /\ \E offset \in UtcOffsets :
       fetch = [NoFetch EXCEPT !.pc = "poll", !.offset = offset]
  /\ call = NoCall
  /\ sched = NoSched
  /\ pipeline = NoRun

NextFetch ==
  \/ \E entries \in SeqsUpTo(Entries, MaxEntries - fetch.count),
        raises \in BOOLEAN :
       PollFeed(entries, raises)
  \/ Deduplicate

SpecFetch == InitFetch /\ [][NextFetch]_vars

(***************************************************************************)
(* The functions of fetch_and_translate.py that are called with a value    *)
(* and answer with a value: scrape_full_article, translate_text and        *)
(* _split_content_into_chunks.  What the network and the environment       *)
(* answer is part of the input.                                            *)
(***************************************************************************)

(***************************************************************************)
(* scrape_full_article.  requests.get raises, or answers with a status and *)
(* a page; the page cannot be parsed, or has no content element (not even  *)
(* a body), or has one with a title and a text.                            *)
(***************************************************************************)
Urls == {"", "https://borsen.dk/nyheder/a"}

\* The exceptions of requests.get, all of them requests.RequestException,
\* with the text str(e) gives.
RequestErrors ==
  {[kind |-> "Timeout", msg |-> ""],
   [kind |-> "Timeout", msg |-> "Read timed out."],
   [kind |-> "ConnectionError", msg |-> "Connection refused"],
   [kind |-> "MissingSchema", msg |-> "Invalid URL"]}

\* A text of a page with the number of words str.split() finds in it.
PageTexts == {[text |-> "", words |-> 0],
              [text |-> "Renten stiger igen", words |-> 3]}

Pages ==
  {[parse |-> "raises", msg |-> "Couldn't find a tree builder"],
   [parse |-> "ok", element |-> FALSE]}
  \cup [parse : {"ok"}, element : {TRUE}, title : {"", "Renten"},
        content : PageTexts]

Responses == [kind : {"response"}, status : {200, 404, 500}, page : Pages]

RequestOutcomes == RequestErrors \cup Responses

\* What response.raise_for_status() raises for a 4xx or 5xx status.
HTTPError(status, url) ==
  IF status < 500
    THEN [kind |-> "HTTPError",
          msg |-> "404 Client Error: Not Found for url: " \o url]
    ELSE [kind |-> "HTTPError",
          msg |-> "500 Server Error: Internal Server Error for url: " \o url]

ScrapeFailure(url, error) ==
  [title |-> "", content |-> "", error |-> error, url |-> url]

\* The function without its two except clauses: every error leaves it.
ScrapeFullArticleUnguarded(url, outcome, offset) ==
  IF outcome.kind # "response" THEN Raised
  ELSE IF outcome.status >= 400 THEN Raised
  ELSE IF outcome.page.parse = "raises" THEN Raised
  ELSE IF ~outcome.page.element
    THEN Returned(ScrapeFailure(url, "Could not find article content"))
  ELSE Returned([title |-> outcome.page.title,
                 content |-> outcome.page.content.text,
                 word_count |-> outcome.page.content.words,
                 url |-> url, scraped_at |-> LocalNow(offset)])

ScrapeFullArticle(url, outcome, offset) ==
  IF outcome.kind # "response"
    THEN \* except requests.RequestException
         Returned(ScrapeFailure(url, "Network error: " \o outcome.msg))
  ELSE IF outcome.status >= 400
    THEN \* raise_for_status(), caught by the same clause
         Returned(ScrapeFailure(url,
           "Network error: " \o HTTPError(outcome.status, url).msg))
  ELSE IF outcome.page.parse = "raises"
    THEN \* except Exception
         Returned(ScrapeFailure(url, "Scraping error: " \o outcome.page.msg))
  ELSE IF ~outcome.page.element
    THEN Returned(ScrapeFailure(url, "Could not find article content"))
  ELSE Returned([title |-> outcome.page.title,
                 content |-> outcome.page.content.text,
                 word_count |-> outcome.page.content.words,
                 url |-> url, scraped_at |-> LocalNow(offset)])

ScrapeInputs ==
  [kind : {"scrape"}, url : Urls, outcome : RequestOutcomes,
   offset : UtcOffsets]

(***************************************************************************)
(* translate_text and the four providers.  The environment holds a set of  *)
(* credentials; ollama is not installed, installed and failing, or         *)
(* answering; the provider's endpoint raises, answers without a            *)
(* translation, or answers with one.                                       *)
(***************************************************************************)
Texts == {"", " ", "Hej", "Renten stiger"}

Methods == {"none", "deepl", "openai", "mistral7b", "togetherai", "google"}

Credentials ==
  {"DEEPL_API_KEY", "OPENAI_API_KEY", "HUGGINGFACE_API_KEY", "API_KEY"}

OllamaStates == {[kind |-> "ImportError"], [kind |-> "raises"],
                 [kind |-> "answers", text |-> "Interest rates are rising"]}

Replies == {[kind |-> "raises"], [kind |-> "empty"],
            [kind |-> "reply", text |-> "Interest rates rise"]}

NoTranslationMarker == "[No translation - Original Danish text]"
HuggingFaceKeyMarker ==
  "[Hugging Face API key not configured - Original Danish text]"
TogetherKeyMarker == "[API key not configured - Original Danish text]"

\* The else branch, were it to hand the text back.
NoTranslationPassThrough(text) == text

\* The else branch of translate_text: "none" and every unknown method.
NoTranslation(text) == NoTranslationMarker

\* _translate_with_deepl: the text when the key is missing or anything
\* raises (a body without a translation raises KeyError or IndexError), else
\* the translation.
TranslateWithDeepl(text, env, reply) ==
  IF "DEEPL_API_KEY" \notin env THEN text
  ELSE IF reply.kind = "reply" THEN reply.text
  ELSE text

\* _translate_with_openai, of the same shape.
TranslateWithOpenai(text, env, reply) ==
  IF "OPENAI_API_KEY" \notin env THEN text
  ELSE IF reply.kind = "reply" THEN reply.text
  ELSE text

\* The generated text here holds neither "English:" nor "Translation:" nor
\* the prompt, so _extract_translation_from_generated_text returns it.
TranslateWithHuggingFaceMistral(text, env, reply) ==
  IF "HUGGINGFACE_API_KEY" \notin env THEN HuggingFaceKeyMarker
  ELSE IF reply.kind = "reply" THEN reply.text
  ELSE text

TranslateWithMistral(text, env, ollama, reply) ==
  IF ollama.kind = "answers" THEN ollama.text
  ELSE TranslateWithHuggingFaceMistral(text, env, reply)

TranslateWithTogetherAi(text, env, reply) ==
  IF "API_KEY" \notin env THEN TogetherKeyMarker
  ELSE IF text \in {"", " "} THEN ""
  ELSE IF reply.kind = "reply" THEN reply.text
  ELSE text

TranslateText(text, method, env, ollama, reply) ==
  IF method = "deepl" THEN TranslateWithDeepl(text, env, reply)
  ELSE IF method = "openai" THEN TranslateWithOpenai(text, env, reply)
  ELSE IF method = "mistral7b"
    THEN TranslateWithMistral(text, env, ollama, reply)
  ELSE IF method = "togetherai" THEN TranslateWithTogetherAi(text, env, reply)
  ELSE NoTranslation(text)

TranslateInputs ==
  [kind : {"translate"}, text : Texts, method : Methods,
   env : SUBSET Credentials, ollama : OllamaStates, reply : Replies]

(***************************************************************************)
(* _split_content_into_chunks.  A string is the sequence of its runs of    *)
(* one character, [ch, n] for n times ch, so that strings of thousands of  *)
(* characters stay small; two neighbouring runs have different characters. *)
(***************************************************************************)
CHUNK_SIZE == 3000

Runs == [ch : {"a", "b"}, n : {1, 1499, 1500}]
          \cup {[ch |-> " ", n |-> 1], [ch |-> "\n", n |-> 2]}

IsString(s) == \A i \in 1..(Len(s) - 1) : s[i].ch # s[i + 1].ch

Contents == {s \in SeqsUpTo(Runs, MaxRuns) : IsString(s)}

\* len(s)
RECURSIVE StrLen(_)
StrLen(s) == IF s = <<>> THEN 0 ELSE Head(s).n + StrLen(Tail(s))

IsSpace(run) == run.ch \in {" ", "\n"}

\* s.split(): the maximal pieces without whitespace, in order.
RECURSIVE Split(_)
Split(s) ==
  IF s = <<>> THEN <<>>
  ELSE IF IsSpace(Head(s)) THEN Split(Tail(s))
  ELSE IF Len(s) > 1 /\ ~IsSpace(s[2])
    THEN LET rest == Split(Tail(s))
         IN  <<<<Head(s)>> \o Head(rest)>> \o Tail(rest)
  ELSE <<<<Head(s)>>>> \o Split(Tail(s))

\* sep.join(parts)
RECURSIVE Join(_, _)
Join(parts, sep) ==
  IF parts = <<>> THEN <<>>
  ELSE IF Len(parts) = 1 THEN parts[1]
  ELSE parts[1] \o sep \o Join(Tail(parts), sep)

Space == <<[ch |-> " ", n |-> 1]>>
ParagraphBreak == <<[ch |-> "\n", n |-> 2]>>

\* word_length without the 1 for the space.
WordLengthWithoutSpace(word) == StrLen(word)

\* word_length = len(word) + 1
WordLength(word) == StrLen(word) + 1

\* A flush that starts the next chunk without the word that caused it.
StartChunkEmpty(word) == <<>>

\* current_chunk = [word]
StartChunk(word) == <<word>>

\* The for loop and the final flush.
RECURSIVE ChunkLoop(_, _, _, _)
ChunkLoop(words, chunks, current_chunk, current_length) ==
  IF words = <<>>
    THEN IF current_chunk # <<>>
           THEN Append(chunks, Join(current_chunk, Space))
           ELSE chunks
  ELSE LET word == Head(words)
           word_length == WordLength(word)
       IN  IF current_length + word_length > CHUNK_SIZE /\ current_chunk # <<>>
             THEN ChunkLoop(Tail(words),
                            Append(chunks, Join(current_chunk, Space)),
                            StartChunk(word), StrLen(word))
             ELSE ChunkLoop(Tail(words), chunks, Append(current_chunk, word),
                            current_length + word_length)

SplitContentIntoChunks(content) == ChunkLoop(Split(content), <<>>, <<>>, 0)

\* "\n\n".join(translated_chunks) in _translate_content_in_chunks
JoinTranslated(translated_chunks) == Join(translated_chunks, ParagraphBreak)

ChunkInputs == [kind : {"chunk"}, content : Contents]

(***************************************************************************)
(* One call of one of the three functions on one input.                    *)
(***************************************************************************)
CallScrapeFullArticle ==
  /\ call.fn = "none"
  /\ call.in.kind = "scrape"
  /\ call' = [fn |-> "scrape_full_article", in |-> call.in,
              res |-> ScrapeFullArticle(call.in.url, call.in.outcome,
                                        call.in.offset)]
  /\ UNCHANGED <<tableExists, columns, rows, now, last, ret, pc, loc, fetch,
                 sched, pipeline>>

CallTranslateText ==
  /\ call.fn = "none"
  /\ call.in.kind = "translate"
  /\ call' = [fn |-> "translate_text", in |-> call.in,
              res |-> Returned(TranslateText(call.in.text, call.in.method,
                                             call.in.env, call.in.ollama,
                                             call.in.reply))]
  /\ UNCHANGED <<tableExists, columns, rows, now, last, ret, pc, loc, fetch,
                 sched, pipeline>>

CallSplitContentIntoChunks ==
  /\ call.fn = "none"
  /\ call.in.kind = "chunk"
  /\ call' = [fn |-> "_split_content_into_chunks", in |-> call.in,
              res |-> Returned(SplitContentIntoChunks(call.in.content))]
  /\ UNCHANGED <<tableExists, columns, rows, now, last, ret, pc, loc, fetch,
                 sched, pipeline>>

InitCalls ==
  /\ tableExists = FALSE
  /\ columns = {}
  /\ rows = EmptyTable
  /\ now = RetentionDays
  /\ last = [op |-> "none", df |-> NoFrame, existed |-> FALSE,
             before |-> EmptyTable, insertFailed |-> FALSE,
             inserted |-> <<>>, removed |-> EmptyTable, repeat |-> FALSE,
             firstRemoved |-> 0, afterDeleteAll |-> FALSE]
  /\ ret = Returned(<<>>)
  /\ pc = [p \in Procs |-> "idle"]
  /\ loc = [p \in Procs |-> Idle]
  /\ fetch = NoFetch
  /\ \E input \in ScrapeInputs \cup TranslateInputs \cup ChunkInputs :
       call = [fn |-> "none", in |-> input]
  /\ sched = NoSched
  /\ pipeline = NoRun

NextCalls ==
  \/ CallScrapeFullArticle
  \/ CallTranslateText
  \/ CallSplitContentIntoChunks

SpecCalls == InitCalls /\ [][NextCalls]_vars

(***************************************************************************)
(* start_scheduler, stop_scheduler and get_status of ArticleScheduler.     *)
(* BackgroundScheduler.add_job puts the job on the pending list while the  *)
(* scheduler is stopped and into the job store while it runs, where a      *)
(* second job with the same id is refused (ConflictingIdError); start()    *)
(* refuses a scheduler that runs (SchedulerAlreadyRunningError) and moves   *)
(* the pending jobs into the store one by one; shutdown() stops the        *)
(* scheduler and empties the in-memory job store.                          *)
(***************************************************************************)
\* self.scheduler.add_job(self.fetch_articles_job, 'cron', ..., id=...)
AddJob(obj) ==
  IF obj.state = "stopped"
    THEN [raised |-> FALSE, obj |-> [obj EXCEPT !.pending = @ + 1]]
  ELSE IF obj.stored > 0
    THEN [raised |-> TRUE, obj |-> obj]
  ELSE [raised |-> FALSE, obj |-> [obj EXCEPT !.stored = 1]]

\* self.scheduler.start(): with more than one job of the id the second one
\* is refused after the first went into the store, and the pending list and
\* the state stay as they were.
Start(obj) ==
  IF obj.state # "stopped" THEN [raised |-> TRUE, obj |-> obj]
  ELSE IF obj.stored + obj.pending > 1
    THEN [raised |-> TRUE, obj |-> [obj EXCEPT !.stored = 1]]
  ELSE [raised |-> FALSE,
        obj |-> [obj EXCEPT !.stored = obj.stored + obj.pending,
                            !.pending = 0, !.state = "running"]]

\* self.scheduler.shutdown()
Shutdown(obj) ==
  IF obj.state = "stopped" THEN [raised |-> TRUE, obj |-> obj]
  ELSE [raised |-> FALSE,
        obj |-> [obj EXCEPT !.state = "stopped", !.stored = 0]]

\* A start_scheduler that does not look at is_running.
AlreadyRunningIgnored(obj) == FALSE

\* if not self.is_running: ... return True / return False
AlreadyRunning(obj) == obj.is_running

\* start_scheduler run without interruption: the result and the instance.
StartSchedulerResult(obj) ==
  IF AlreadyRunning(obj) THEN [ret |-> Returned(<<FALSE>>), obj |-> obj]
  ELSE LET added == AddJob(obj)
           started == Start(added.obj)
       IN  IF added.raised THEN [ret |-> Raised, obj |-> added.obj]
           ELSE IF started.raised THEN [ret |-> Raised, obj |-> started.obj]
           ELSE [ret |-> Returned(<<TRUE>>),
                 obj |-> [started.obj EXCEPT !.is_running = TRUE]]

StartScheduler ==
  /\ sched' = [sched EXCEPT !.obj = StartSchedulerResult(sched.obj).obj,
                            !.op = "start", !.before = sched.obj]
  /\ ret' = StartSchedulerResult(sched.obj).ret
  /\ UNCHANGED <<tableExists, columns, rows, now, last, pc, loc, fetch, call,
                 pipeline>>

StopScheduler ==
  /\ LET stopped == Shutdown(sched.obj)
     IN  IF ~sched.obj.is_running
           THEN /\ sched' = [sched EXCEPT !.op = "stop", !.before = sched.obj]
                /\ ret' = Returned(<<>>)
         ELSE IF stopped.raised
           THEN /\ sched' = [sched EXCEPT !.op = "stop", !.before = sched.obj]
                /\ ret' = Raised
         ELSE /\ sched' = [sched EXCEPT
                   !.obj = [stopped.obj EXCEPT !.is_running = FALSE],
                   !.op = "stop", !.before = sched.obj]
              /\ ret' = Returned(<<>>)
  /\ UNCHANGED <<tableExists, columns, rows, now, last, pc, loc, fetch, call,
                 pipeline>>

\* The hours of the day on the CET clock, and valid_hours.
Hours == 0..23
ValidHours == {6, 8, 10, 12}

\* next_run of get_status, as the day (0 today, 1 tomorrow) and the hour.
\* `current_minute < 0` never holds, so only later hours count.
NextRun(hour) ==
  IF 6 <= hour /\ hour <= 12
    THEN LET later == {h \in ValidHours : h > hour}
         IN  IF later # {}
               THEN [day |-> 0,
                     hour |-> CHOOSE h \in later : \A g \in later : h <= g]
               ELSE [day |-> 1, hour |-> 6]
  ELSE IF hour < 6 THEN [day |-> 0, hour |-> 6]
  ELSE [day |-> 1, hour |-> 6]

GetStatus(hour) ==
  /\ ret' = Returned([is_running |-> sched.obj.is_running,
                      last_fetch_time |-> sched.obj.last_fetch_time,
                      last_fetch_status |-> sched.obj.last_fetch_status,
                      next_run |-> NextRun(hour),
                      fetch_count |-> sched.obj.fetch_count,
                      current_time |-> hour])
  /\ sched' = [sched EXCEPT !.op = "status", !.before = sched.obj]
  /\ UNCHANGED <<tableExists, columns, rows, now, last, pc, loc, fetch, call,
                 pipeline>>

\* The instance as new, or as an earlier job run and a stop left it.
EarlierSchedulers ==
  {NewScheduler,
   [NewScheduler EXCEPT !.last_fetch_time = "2026-11-03 12:00:05 CET",
                        !.last_fetch_status = "No articles found",
                        !.fetch_count = 0],
   [NewScheduler EXCEPT !.last_fetch_time = "2026-11-03 12:00:05 CET",
                        !.last_fetch_status = "Success: Added 0, Skipped 0",
                        !.fetch_count = 1]}

InitScheduler ==
  /\ tableExists = FALSE
  /\ columns = {}
  /\ rows = EmptyTable
  /\ now = RetentionDays
  /\ last = [op |-> "none", df |-> NoFrame, existed |-> FALSE,
             before |-> EmptyTable, insertFailed |-> FALSE,
             inserted |-> <<>>, removed |-> EmptyTable, repeat |-> FALSE,
             firstRemoved |-> 0, afterDeleteAll |-> FALSE]
  /\ ret = Returned(<<>>)
  /\ pc = [p \in Procs |-> "idle"]
  /\ loc = [p \in Procs |-> Idle]
  /\ fetch = NoFetch
  /\ call = NoCall
  /\ \E obj \in EarlierSchedulers :
       sched = [NoSched EXCEPT !.obj = obj, !.before = obj]
  /\ pipeline = NoRun

NextScheduler ==
  \/ StartScheduler
  \/ StopScheduler
  \/ \E hour \in Hours : GetStatus(hour)

SpecScheduler == InitScheduler /\ [][NextScheduler]_vars

(***************************************************************************)
(* start_scheduler statement by statement, for the script threads of two   *)
(* sessions: app.py calls it on every rerun while is_running is false.     *)
(* Nothing in scheduler.py holds a lock from the test of is_running to its *)
(* assignment.                                                             *)
(***************************************************************************)
\* Line 64: the test of is_running, and `return False`.
StartCheck(s) ==
  /\ sched.at[s] = "idle"
  /\ sched.obj.pending
       + Cardinality({t \in Sessions : sched.at[t] = "add_job"}) < MaxPending
  /\ IF AlreadyRunning(sched.obj)
       THEN /\ ret' = Returned(<<FALSE>>)
            /\ sched' = [sched EXCEPT !.op = "start", !.before = sched.obj]
       ELSE /\ sched' = [sched EXCEPT !.at[s] = "add_job"]
            /\ UNCHANGED ret
  /\ UNCHANGED <<tableExists, columns, rows, now, last, pc, loc, fetch, call,
                 pipeline>>

\* Lines 67-73: add_job.
StartAddJob(s) ==
  /\ sched.at[s] = "add_job"
  /\ LET added == AddJob(sched.obj)
     IN  IF added.raised
           THEN /\ sched' = [sched EXCEPT !.at[s] = "idle", !.op = "start",
                                          !.before = sched.obj]
                /\ ret' = Raised
           ELSE /\ sched' = [sched EXCEPT !.obj = added.obj,
                                          !.at[s] = "start"]
                /\ UNCHANGED ret
  /\ UNCHANGED <<tableExists, columns, rows, now, last, pc, loc, fetch, call,
                 pipeline>>

\* Line 74: scheduler.start().
StartStart(s) ==
  /\ sched.at[s] = "start"
  /\ LET started == Start(sched.obj)
     IN  IF started.raised
           THEN /\ sched' = [sched EXCEPT !.obj = started.obj,
                                          !.at[s] = "idle", !.op = "start",
                                          !.before = sched.obj]
                /\ ret' = Raised
           ELSE /\ sched' = [sched EXCEPT !.obj = started.obj,
                                          !.at[s] = "set_running"]
                /\ UNCHANGED ret
  /\ UNCHANGED <<tableExists, columns, rows, now, last, pc, loc, fetch, call,
                 pipeline>>

\* Lines 75-76: is_running = True and `return True`.
StartSetRunning(s) ==
  /\ sched.at[s] = "set_running"
  /\ sched' = [sched EXCEPT !.obj.is_running = TRUE, !.at[s] = "idle",
                            !.op = "start", !.before = sched.obj]
  /\ ret' = Returned(<<TRUE>>)
  /\ UNCHANGED <<tableExists, columns, rows, now, last, pc, loc, fetch, call,
                 pipeline>>

\* Lines 81-82 of stop_scheduler: the test of is_running and shutdown().
StopShutdown(s) ==
  /\ sched.at[s] = "idle"
  /\ LET stopped == Shutdown(sched.obj)
     IN  IF ~sched.obj.is_running
           THEN /\ sched' = [sched EXCEPT !.op = "stop", !.before = sched.obj]
                /\ ret' = Returned(<<>>)
         ELSE IF stopped.raised
           THEN /\ sched' = [sched EXCEPT !.op = "stop", !.before = sched.obj]
                /\ ret' = Raised
         ELSE /\ sched' = [sched EXCEPT !.obj = stopped.obj,
                                        !.at[s] = "set_stopped"]
              /\ UNCHANGED ret
  /\ UNCHANGED <<tableExists, columns, rows, now, last, pc, loc, fetch, call,
                 pipeline>>

\* Line 83: is_running = False.
StopSetStopped(s) ==
  /\ sched.at[s] = "set_stopped"
  /\ sched' = [sched EXCEPT !.obj.is_running = FALSE, !.at[s] = "idle",
                            !.op = "stop", !.before = sched.obj]
  /\ ret' = Returned(<<>>)
  /\ UNCHANGED <<tableExists, columns, rows, now, last, pc, loc, fetch, call,
                 pipeline>>

NextStartRace ==
  \/ \E s \in Sessions : StartCheck(s)
  \/ \E s \in Sessions : StartAddJob(s)
  \/ \E s \in Sessions : StartStart(s)
  \/ \E s \in Sessions : StartSetRunning(s)
  \/ \E s \in Sessions : StopShutdown(s)
  \/ \E s \in Sessions : StopSetStopped(s)

SpecStartRace == Init /\ [][NextStartRace]_vars

(***************************************************************************)
(* One run of the pipeline.  fetch_articles_job runs on the scheduler's    *)
(* thread: fetch_articles (the poll of every feed, drop_duplicates, one    *)
(* scrape per row), one translate_text per summary, save_to_db, and the    *)
(* fields of the instance.  The dashboard's fetch handler runs the same    *)
(* calls on a session's script thread.  What the feeds, the site and the   *)
(* translation provider answer is drawn from small sets; the host runs on  *)
(* UTC and has the provider's API_KEY.                                     *)
(***************************************************************************)
\* The entries of the last hour.
JobEntries == {e \in Entries : e.published = Aware(1)}

\* A request that fails and a page with an article.
JobOutcomes ==
  {[kind |-> "ConnectionError", msg |-> "Connection refused"],
   [kind |-> "response", status |-> 200,
    page |-> [parse |-> "ok", element |-> TRUE, title |-> "Renten",
              content |-> [text |-> "Renten stiger igen", words |-> 3]]]}

JobReplies == {[kind |-> "raises"],
               [kind |-> "reply", text |-> "Interest rates rise"]}

\* datetime.now(CET).strftime("%Y-%m-%d %H:%M:%S CET") at the end of a run.
JobClock == "2026-11-04 06:00:05 CET"

\* The stage is written to the log when the run enters it.
Entered(log, stage) ==
  IF log # <<>> /\ log[Len(log)] = stage THEN log ELSE Append(log, stage)

\* The body of the loop of _scrape_article_content: the row keeps its
\* content, word_count and scraped_at when the dict has the key "error".
ScrapedRow(row, outcome, offset) ==
  LET article_data == ScrapeFullArticle(row.link, outcome, offset).val
  IN  IF "error" \in DOMAIN article_data THEN row
      ELSE [row EXCEPT !.content = article_data.content,
                       !.word_count = article_data.word_count,
                       !.scraped_at = article_data.scraped_at]

\* articles_df["translated_summary"] = ... for one row.
TranslatedRow(row, env, reply) ==
  row @@ ("translated_summary" :>
            TranslateText(row.summary, "togetherai", env,
                          [kind |-> "ImportError"], reply))

\* The cron trigger fires the job: the scheduler runs, holds the job, and no
\* earlier instance of the job is still running (max_instances is 1).
JobBegin(offset, env) ==
  /\ sched.obj.state = "running"
  /\ sched.obj.stored > 0
  /\ sched.obj.fetch_count < MaxFetches
  /\ pipeline["scheduler"].pc = "idle"
  /\ fetch' = [NoFetch EXCEPT !.pc = "poll", !.offset = offset]
  /\ pipeline' = [pipeline EXCEPT !["scheduler"] =
       [IdleRun EXCEPT !.pc = "fetch", !.env = env, !.log = <<"Polling">>]]
  /\ UNCHANGED <<tableExists, columns, rows, now, last, ret, pc, loc, call,
                 sched>>

\* A failed scrape that takes the row out of the frame.
ScrapeArticleDropping(outcome) ==
  /\ pipeline["scheduler"].pc = "fetch"
  /\ fetch.pc = "scrape"
  /\ pipeline["scheduler"].k <= Len(fetch.df)
  /\ LET k == pipeline["scheduler"].k
         row == ScrapedRow(fetch.df[k], outcome, fetch.offset)
         failed == "error" \in DOMAIN
                     ScrapeFullArticle(fetch.df[k].link, outcome,
                                       fetch.offset).val
     IN  /\ fetch' = [fetch EXCEPT !.df =
                        IF failed
                          THEN SubSeq(@, 1, k - 1) \o SubSeq(@, k + 1, Len(@))
                          ELSE [@ EXCEPT ![k] = row]]
         /\ pipeline' = [pipeline EXCEPT
              !["scheduler"].k = IF failed THEN @ ELSE @ + 1,
              !["scheduler"].log = Entered(@, "Scraping"),
              !["scheduler"].outcomes = Append(@, outcome)]
  /\ UNCHANGED <<tableExists, columns, rows, now, last, ret, pc, loc, call,
                 sched>>

\* One turn of the loop of _scrape_article_content.
ScrapeArticle(outcome) ==
  /\ pipeline["scheduler"].pc = "fetch"
  /\ fetch.pc = "scrape"
  /\ pipeline["scheduler"].k <= Len(fetch.df)
  /\ LET k == pipeline["scheduler"].k
     IN  /\ fetch' = [fetch EXCEPT
              !.df[k] = ScrapedRow(@, outcome, fetch.offset)]
         /\ pipeline' = [pipeline EXCEPT
              !["scheduler"].k = @ + 1,
              !["scheduler"].log = Entered(@, "Scraping"),
              !["scheduler"].outcomes = Append(@, outcome)]
  /\ UNCHANGED <<tableExists, columns, rows, now, last, ret, pc, loc, call,
                 sched>>

\* fetch_articles returning before the loop over the rows has ended.
FetchReturnEarly ==
  /\ pipeline["scheduler"].pc = "fetch"
  /\ fetch.pc = "scrape"
  /\ fetch' = [fetch EXCEPT !.pc = "done"]
  /\ pipeline' = [pipeline EXCEPT
       !["scheduler"].pc = "fetched",
       !["scheduler"].df = fetch.df,
       !["scheduler"].k = 1]
  /\ UNCHANGED <<tableExists, columns, rows, now, last, ret, pc, loc, call,
                 sched>>

\* articles_df = fetch_articles(): the empty frame of line 96, or the frame
\* after the last scrape.
FetchReturn ==
  /\ pipeline["scheduler"].pc = "fetch"
  /\ fetch.pc = "scrape"
  /\ pipeline["scheduler"].k > Len(fetch.df)
  /\ fetch' = [fetch EXCEPT !.pc = "done"]
  /\ pipeline' = [pipeline EXCEPT
       !["scheduler"].pc = "fetched",
       !["scheduler"].df = fetch.df,
       !["scheduler"].k = 1]
  /\ UNCHANGED <<tableExists, columns, rows, now, last, ret, pc, loc, call,
                 sched>>

\* Lines 31-33, one row of the apply.
TranslateSummary(reply) ==
  /\ pipeline["scheduler"].pc = "fetched"
  /\ Len(pipeline["scheduler"].df) > 0
  /\ pipeline["scheduler"].k <= Len(pipeline["scheduler"].df)
  /\ LET k == pipeline["scheduler"].k
     IN  pipeline' = [pipeline EXCEPT
           !["scheduler"].df[k] =
             TranslatedRow(@, pipeline["scheduler"].env, reply),
           !["scheduler"].k = @ + 1,
           !["scheduler"].log = Entered(@, "Translating"),
           !["scheduler"].replies = Append(@, reply)]
  /\ UNCHANGED <<tableExists, columns, rows, now, last, ret, pc, loc, fetch,
                 call, sched>>

\* Line 36: save_to_db(articles_df).
JobSave ==
  /\ pipeline["scheduler"].pc = "fetched"
  /\ Len(pipeline["scheduler"].df) > 0
  /\ pipeline["scheduler"].k > Len(pipeline["scheduler"].df)
  /\ SaveToDbEffect([cols |-> PipelineColumns,
                     rows |-> pipeline["scheduler"].df])
  /\ pipeline' = [pipeline EXCEPT
       !["scheduler"].pc = "saved",
       !["scheduler"].result = ret'.val,
       !["scheduler"].log = Entered(@, "Persisting"),
       !["scheduler"].batch = Append(@, pipeline["scheduler"].df),
       !["scheduler"].saves = @ + 1]
  /\ UNCHANGED <<now, pc, loc, fetch, call, sched>>

\* Lines 38-44; the status text is built from added_count and
\* skipped_count behind a check mark.
JobRecord ==
  /\ pipeline["scheduler"].pc = "saved"
  /\ sched' = [sched EXCEPT
       !.obj.last_fetch_time = JobClock,
       !.obj.last_fetch_status =
          "Success: Added " \o ToString(pipeline["scheduler"].result[3])
            \o ", Skipped " \o ToString(pipeline["scheduler"].result[2]),
       !.obj.fetch_count = @ + 1]
  /\ pipeline' = [pipeline EXCEPT
       !["scheduler"].pc = "idle",
       !["scheduler"].log = Entered(@, "Idle")]
  /\ UNCHANGED <<tableExists, columns, rows, now, last, ret, pc, loc, fetch,
                 call>>

\* Lines 48-53: the frame is empty; nothing is translated or saved and
\* fetch_count stays.
JobNoArticles ==
  /\ pipeline["scheduler"].pc = "fetched"
  /\ Len(pipeline["scheduler"].df) = 0
  /\ sched' = [sched EXCEPT
       !.obj.last_fetch_time = JobClock,
       !.obj.last_fetch_status = "No articles found"]
  /\ pipeline' = [pipeline EXCEPT
       !["scheduler"].pc = "idle",
       !["scheduler"].log = Entered(@, "Idle")]
  /\ UNCHANGED <<tableExists, columns, rows, now, last, ret, pc, loc, fetch,
                 call>>

\* The frames fetch_articles and the apply of app.py lines 39 and 44 leave
\* the handler with: none, or one row.
DashboardFrames ==
  {<<>>} \cup
  {<<TranslatedRow(
       ScrapedRow(ArticleOf(entry, Feeds[1], offset), outcome, offset),
       {"API_KEY"}, reply)>> :
     entry \in {e \in JobEntries : e.title = "a" /\ e.published = Aware(1)},
     offset \in {0}, outcome \in JobOutcomes,
     reply \in {r \in JobReplies : r.kind = "reply"}}

\* app.py line 38: one of the two fetch buttons was pressed.  Nothing in the
\* handler looks at a run that is under way.
FetchPressed ==
  /\ pipeline["dashboard"].pc = "idle"
  /\ pipeline' = [pipeline EXCEPT !["dashboard"] =
       [IdleRun EXCEPT !.pc = "fetch", !.env = {"API_KEY"},
                       !.log = <<"Polling">>]]
  /\ UNCHANGED <<tableExists, columns, rows, now, last, ret, pc, loc, fetch,
                 call, sched>>

\* app.py lines 39-63: df["summary"] of the frame without columns raises
\* KeyError outside the try; otherwise save_to_db is called.
FetchHandled(df) ==
  /\ pipeline["dashboard"].pc = "fetch"
  /\ IF df = <<>>
       THEN /\ ret' = Raised
            /\ pipeline' = [pipeline EXCEPT
                 !["dashboard"].pc = "idle",
                 !["dashboard"].log = Entered(@, "Idle")]
            /\ UNCHANGED <<tableExists, columns, rows, last>>
       ELSE /\ SaveToDbEffect([cols |-> PipelineColumns, rows |-> df])
            /\ pipeline' = [pipeline EXCEPT
                 !["dashboard"].pc = "idle",
                 !["dashboard"].df = df,
                 !["dashboard"].result = ret'.val,
                 !["dashboard"].log =
                    @ \o <<"Scraping", "Translating", "Persisting", "Idle">>,
                 !["dashboard"].batch = <<df>>,
                 !["dashboard"].saves = 1]
  /\ UNCHANGED <<now, pc, loc, fetch, call, sched>>

\* shutdown() waits for the job that is running.
StopSchedulerWaiting ==
  /\ pipeline["scheduler"].pc = "idle"
  /\ StopScheduler

NextPipeline ==
  \/ StartScheduler
  \/ JobBegin(0, {"API_KEY"})
  \/ \E entries \in SeqsUpTo(JobEntries, 1), raises \in BOOLEAN :
       PollFeed(entries, raises)
  \/ Deduplicate
  \/ \E outcome \in JobOutcomes : ScrapeArticle(outcome)
  \/ FetchReturn
  \/ \E reply \in JobReplies : TranslateSummary(reply)
  \/ JobSave
  \/ JobRecord
  \/ JobNoArticles

SpecPipeline == Init /\ [][NextPipeline]_vars

\* The job next to the dashboard's handler, with one kind of entry, one host
\* and one environment.
NextOverlap ==
  \/ StartScheduler
  \/ StopSchedulerWaiting
  \/ JobBegin(0, {"API_KEY"})
  \/ \E entries \in SeqsUpTo({e \in JobEntries : e.title = "a"
                                                  /\ e.published = Aware(1)},
                              1),
        raises \in BOOLEAN :
       PollFeed(entries, raises)
  \/ Deduplicate
  \/ \E outcome \in JobOutcomes : ScrapeArticle(outcome)
  \/ FetchReturn
  \/ \E reply \in JobReplies : TranslateSummary(reply)
  \/ JobSave
  \/ JobRecord
  \/ JobNoArticles
  \/ FetchPressed
  \/ \E df \in DashboardFrames : FetchHandled(df)

SpecOverlap == Init /\ [][NextOverlap]_vars

(***************************************************************************)
(* Properties of the store, for calls that run one after another (Spec).   *)
(***************************************************************************)
SaveReturned == last.op = "Save"

FrameRows == {last.df.rows[i] : i \in 1..Len(last.df.rows)}

Triple(a) == <<a.title, a.summary, a.link>>

\* The rows of table t that carry the triple of article a.
RowsWithTriple(t, a) ==
  SumOver(t, {b \in Articles : Triple(b) = Triple(a)})

\* a and b agree on title, summary and link when a null is read as "".
SameUpToNull(a, b) ==
  \A f \in {"title", "summary", "link"} :
    \/ a[f] = b[f]
    \/ {a[f], b[f]} = {NULL, ""}

OlderThanRetention(a) == a.published + RetentionDays < now

\* C1: no two stored rows share the same (title, summary, link) triple,
\* whatever frames were saved.
C1_NoTwoRowsShareTriple ==
  \A a \in Articles : RowsWithTriple(rows, a) <= 1

\* C2: two save_to_db calls never both read the existing keys before either
\* inserts and then both insert a row with the same triple.
C2_ConcurrentSavesSerialized ==
  \A p \in Procs :
    LET q == Other(p)
    IN  ~ /\ loc[p].otherHadRead
          /\ \E i \in 1..Len(loc[p].inserted), j \in 1..Len(loc[q].inserted) :
                Triple(loc[p].inserted[i]) = Triple(loc[q].inserted[j])

\* C3: a save_to_db whose INSERT failed raises to its caller; it does not
\* return a count triple.
C3_FailedInsertIsRaised ==
  (SaveReturned /\ last.insertFailed) => ret.kind = "raise"

\* C4 as stated: a save_to_db that directly follows a save_to_db of the same
\* frame reports added = 0 and leaves the row count as it was.
C4_SecondSaveAddsNothing ==
  (SaveReturned /\ last.repeat) =>
    /\ ret.kind = "return"
    /\ ret.val[3] = 0
    /\ Count(rows) = Count(last.before)

\* C4 amended: the same, when the retention sweep of the first of the two
\* calls removed no row (neither the frame nor the table held a row older
\* than the retention window).
C4_SecondSaveAfterCleanFirstAddsNothing ==
  (SaveReturned /\ last.repeat /\ last.firstRemoved = 0) =>
    /\ ret.kind = "return"
    /\ ret.val[3] = 0
    /\ Count(rows) = Count(last.before)

C4_Witness ==
  /\ SaveReturned /\ last.repeat /\ last.firstRemoved = 0
  /\ ~last.insertFailed
  /\ FrameRows # {}
  /\ ret.val[2] = Len(last.df.rows)
  /\ \A a \in FrameRows : last.before[a] > 0

\* C5: save_to_db of a non-empty frame returns added + skipped = the number
\* of rows of the frame, and added = the number of rows it inserted.
C5_AddedPlusSkippedIsFrame ==
  (SaveReturned /\ Len(last.df.rows) > 0) =>
    /\ ret.kind = "return"
    /\ ret.val[3] + ret.val[2] = Len(last.df.rows)
    /\ ret.val[3] = Len(last.inserted)

\* C6: a candidate that equals a stored row up to null against "" in title,
\* summary or link is not inserted, and a save that returns its counts has
\* counted it as skipped.
C6_NullEqualsEmpty ==
  SaveReturned =>
    LET dups == {i \in 1..Len(last.df.rows) :
                   \E r \in Articles :
                     /\ last.before[r] > 0
                     /\ SameUpToNull(last.df.rows[i], r)}
    IN  /\ \A i \in dups : Occurrences(last.inserted, last.df.rows[i]) = 0
        /\ ~last.insertFailed => ret.val[2] >= Cardinality(dups)

C6_Witness ==
  /\ SaveReturned /\ ~last.insertFailed
  /\ \E c \in FrameRows, r \in Articles :
       /\ last.before[r] > 0
       /\ c.title = r.title /\ c.link = r.link
       /\ c.summary = "" /\ r.summary = NULL
  /\ ret.val[2] >= 1

\* C7: cleanup_old_articles removes exactly the rows published more than
\* RetentionDays before now, keeps every other row and returns the number
\* of rows it removed.
C7_CleanupRemovesExactlyOld ==
  (last.op = "CleanupOld" /\ last.existed) =>
    /\ \A a \in Articles :
         rows[a] = IF OlderThanRetention(a) THEN 0 ELSE last.before[a]
    /\ ret = Returned(<<Count(last.before) - Count(rows)>>)

\* Rows published 1, 6, 8 and 10 days ago: the last two go, 2 is returned.
C7_Witness ==
  /\ last.op = "CleanupOld" /\ last.existed
  /\ Count(last.before) = 4
  /\ \A d \in {1, 6, 8, 10} :
       \E a \in Articles : last.before[a] = 1 /\ a.published = now - d
  /\ \A a \in Articles : rows[a] = IF a.published \in {now - 1, now - 6}
                                     THEN 1 ELSE 0
  /\ ret = Returned(<<2>>)

C9_OnlySweepAndDeleteAllRemove ==
  /\ last.op \in {"Save", "EnsureSchema", "LoadLatest", "LoadLatestNew"} =>
       \A a \in Articles : ~OlderThanRetention(a) => rows[a] >= last.before[a]
  /\ last.op \in {"EnsureSchema", "LoadLatest", "LoadLatestNew"} =>
       rows = last.before

\* A save whose sweep removed a row while a row published within the
\* retention window stayed in the table.
C9_Witness ==
  /\ SaveReturned /\ ~last.insertFailed
  /\ \E a \in Articles :
       ~OlderThanRetention(a) /\ last.before[a] > 0 /\ rows[a] = last.before[a]
  /\ \E a \in Articles : OlderThanRetention(a) /\ last.removed[a] > 0

\* C10: load_latest on a store without the articles table returns an empty
\* result and does not raise, in db.py as in db_new.py.
C10_LoadLatestWithoutTable ==
  (last.op \in {"LoadLatest", "LoadLatestNew"} /\ ~last.existed) =>
    ret = Returned(<<>>)

\* C12: after init_database the table has every optional column and the rows
\* it had before, whatever subset of the optional columns it started with.
C12_EnsureSchemaAddsMissingColumns ==
  last.op = "EnsureSchema" =>
    /\ columns = OptionalColumns
    /\ rows = last.before
    /\ ret = Returned(<<TRUE>>)

\* C11: delete_all_articles returns the number of rows the table held (0
\* when there was no table) and leaves an existing, empty table; a
\* load_latest that follows returns no rows, and a save_to_db that follows
\* with a frame in the table's layout inserts every row of the frame.
C11_DeleteAllLeavesEmptyTable ==
  /\ last.op = "DeleteAll" =>
       /\ ret = Returned(<<IF last.existed THEN Count(last.before) ELSE 0>>)
       /\ tableExists
       /\ \A a \in Articles : rows[a] = 0
  /\ (last.afterDeleteAll /\ last.op \in {"LoadLatest", "LoadLatestNew"}) =>
       ret = Returned(<<>>)
  /\ (last.afterDeleteAll /\ SaveReturned /\ last.df.cols = TableColumns) =>
       /\ ~last.insertFailed
       /\ last.inserted = last.df.rows
       /\ ret.val[3] = Len(last.df.rows)

C11_Witness ==
  /\ last.afterDeleteAll /\ SaveReturned /\ last.df.cols = TableColumns
  /\ Len(last.df.rows) = 2
  /\ Count(rows) = 2
  /\ ret = Returned(<<0, 0, 2>>)

(***************************************************************************)
(* Properties of fetch_articles (SpecFetch).                               *)
(***************************************************************************)
\* The instant a published text names, in hours UTC; a date without a zone
\* is read on the host's clock.
Instant(p, offset) ==
  IF p.kind = "aware" THEN p.wall - p.offset ELSE p.wall - offset

IsRecent(entry, offset) ==
  /\ entry.published.kind # "text"
  /\ Instant(entry.published, offset) >= PollClock - CutoffHours

FeedSet == {Feeds[i] : i \in 1..Len(Feeds)}

\* C13: the candidates _process_feed_entries returns for a feed are exactly
\* the feed's entries whose published text is a date and names an instant not
\* more than 24 hours before the poll, in the feed's order; older entries and
\* entries without a date are dropped.
C13_CandidatesAreTheRecentEntries ==
  (fetch.i > 1 /\ ~fetch.raised) =>
    LET Recent(entry) == IsRecent(entry, fetch.offset)
    IN  fetch.got = ArticlesOf(SelectSeq(fetch.parsed, Recent),
                               Feeds[fetch.i - 1], fetch.offset)

\* C14: after the dedup, every (title, summary, link) triple among the
\* collected articles occurs exactly once in the output, the output row is the
\* last collected article with that triple, and the output has no other row.
C14_DedupKeepsLastOccurrence ==
  fetch.pc = "scrape" =>
    LET arts == fetch.articles
        df == fetch.df
    IN  /\ \A i \in 1..Len(arts) :
             LET same == {j \in 1..Len(arts) :
                            DedupKey(arts[j]) = DedupKey(arts[i])}
                 lastJ == CHOOSE j \in same : \A k \in same : k <= j
                 hits == {k \in 1..Len(df) :
                            DedupKey(df[k]) = DedupKey(arts[i])}
             IN  /\ Cardinality(hits) = 1
                 /\ \A k \in hits : df[k] = arts[lastJ]
        /\ \A k \in 1..Len(df) : \E i \in 1..Len(arts) : df[k] = arts[i]

C14_Witness ==
  /\ fetch.pc = "scrape"
  /\ Len(fetch.articles) = 3
  /\ Len(fetch.df) = 2
  /\ \E i \in 1..3, j \in 1..3 :
       /\ i < j
       /\ DedupKey(fetch.articles[i]) = DedupKey(fetch.articles[j])
       /\ fetch.articles[i].feed # fetch.articles[j].feed
       /\ \E k \in 1..2 : fetch.df[k] = fetch.articles[j]

\* C15: when the poll has finished, every configured feed has been tried,
\* whichever feeds raised, and every entry that passed the recency filter of
\* a feed that did not raise has its triple in the output.
C15_FailedFeedsDoNotStopThePoll ==
  fetch.pc = "scrape" =>
    /\ fetch.polled = FeedSet
    /\ \A x \in fetch.seen :
         PassesFilter(x.entry, CutoffTime(fetch.offset)) =>
           \E k \in 1..Len(fetch.df) :
             DedupKey(fetch.df[k]) = DedupKey(x.entry)

C15_Witness ==
  /\ fetch.pc = "scrape"
  /\ fetch.failed = {Feeds[1], Feeds[2]}
  /\ \E k \in 1..Len(fetch.df) : fetch.df[k].feed = Feeds[3]

(***************************************************************************)
(* Properties of the functions called with a value (SpecCalls).            *)
(***************************************************************************)
Scraped == call.fn = "scrape_full_article"

RequestFailed(outcome) ==
  outcome.kind # "response" \/ outcome.status >= 400

\* C16: scrape_full_article returns for every URL and every answer of the
\* network; when the request raised, timed out or came back with an error
\* status, the result has empty content and a non-empty error text.
C16_ScrapeNeverRaises ==
  Scraped =>
    /\ call.res.kind = "return"
    /\ RequestFailed(call.in.outcome) =>
         /\ call.res.val.content = ""
         /\ "error" \in DOMAIN call.res.val
         /\ call.res.val.error # ""

C16_Witness ==
  /\ Scraped
  /\ call.in.outcome.kind = "response"
  /\ call.in.outcome.status = 404
  /\ call.res = Returned(ScrapeFailure(call.in.url,
       "Network error: 404 Client Error: Not Found for url: " \o call.in.url))

Translated == call.fn = "translate_text"

CredentialOf(method) ==
  CASE method = "deepl" -> "DEEPL_API_KEY"
    [] method = "openai" -> "OPENAI_API_KEY"
    [] method = "mistral7b" -> "HUGGINGFACE_API_KEY"
    [] method = "togetherai" -> "API_KEY"

\* C18: translate_text with a provider method whose credential is not in the
\* environment returns the text it was given.
C18_MissingCredentialReturnsInput ==
  (/\ Translated
   /\ call.in.method \in {"deepl", "openai", "mistral7b", "togetherai"}
   /\ CredentialOf(call.in.method) \notin call.in.env)
  => call.res = Returned(call.in.text)

Chunked == call.fn = "_split_content_into_chunks"

\* C19: every chunk is at most CHUNK_SIZE characters long.
C19_ChunksWithinBudget ==
  Chunked =>
    \A k \in 1..Len(call.res.val) : StrLen(call.res.val[k]) <= CHUNK_SIZE

\* C19, amended: when no word of the content is longer than CHUNK_SIZE, every
\* chunk is at most CHUNK_SIZE characters long.
C19_ChunksOfShortWordsWithinBudget ==
  (/\ Chunked
   /\ \A w \in 1..Len(Split(call.in.content)) :
        StrLen(Split(call.in.content)[w]) <= CHUNK_SIZE)
  => \A k \in 1..Len(call.res.val) : StrLen(call.res.val[k]) <= CHUNK_SIZE

C19_Witness ==
  /\ Chunked
  /\ \A w \in 1..Len(Split(call.in.content)) :
       StrLen(Split(call.in.content)[w]) <= CHUNK_SIZE
  /\ Len(call.res.val) = 2
  /\ StrLen(call.res.val[2]) = CHUNK_SIZE

\* The words of the chunks, chunk after chunk.
RECURSIVE WordsOfChunks(_)
WordsOfChunks(chunks) ==
  IF chunks = <<>> THEN <<>>
  ELSE Split(Head(chunks)) \o WordsOfChunks(Tail(chunks))

\* " ".join(s.split())
Normalized(s) == Join(Split(s), Space)

\* C20: the words of the chunks, read in chunk order, are the words of the
\* content in order, and the chunks joined with paragraph breaks are, with
\* whitespace normalized, the content with whitespace normalized.
C20_ChunksRejoinToContent ==
  Chunked =>
    /\ WordsOfChunks(call.res.val) = Split(call.in.content)
    /\ Normalized(JoinTranslated(call.res.val)) = Normalized(call.in.content)

C20_Witness ==
  /\ Chunked
  /\ Len(call.res.val) = 2
  /\ Len(Split(call.in.content)) = 3
  /\ Normalized(JoinTranslated(call.res.val)) = Normalized(call.in.content)
  /\ JoinTranslated(call.res.val) # call.in.content

(***************************************************************************)
(* Further properties of save_to_db (Spec) and of the poll (SpecFetch).    *)
(***************************************************************************)
\* C24: a save_to_db that completed skips only true duplicates: every row of
\* the frame whose (title, summary, link), with null read as "", differs from
\* that of every row the table held is among the rows inserted.
C24_OnlyTrueDuplicatesSkipped ==
  (SaveReturned /\ ~last.insertFailed) =>
    \A i \in 1..Len(last.df.rows) :
      (\A b \in Articles :
         last.before[b] > 0 => ~SameUpToNull(last.df.rows[i], b))
      => Occurrences(last.inserted, last.df.rows[i]) >= 1

\* C26: an entry whose published text carries a zone is kept by
\* _process_feed_entries exactly when its instant is not more than 24 hours
\* before the instant of the poll, whatever the host's UTC offset.
C26_AwareEntriesKeptByInstant ==
  (fetch.i > 1 /\ ~fetch.raised) =>
    \A k \in 1..Len(fetch.parsed) :
      LET entry == fetch.parsed[k]
          kept == \E j \in 1..Len(fetch.got) :
                    fetch.got[j] = ArticleOf(entry, Feeds[fetch.i - 1],
                                             fetch.offset)
      IN  entry.published.kind = "aware" =>
            (kept <=> Instant(entry.published, fetch.offset)
                        >= PollClock - CutoffHours)

\* C27: a save_to_db of a frame with the pipeline's columns stores its new
\* rows, each value under the table column of the same name: the INSERT goes
\* through, and every frame column that is also a table column stands at the
\* table's position for it.
C27_PipelineFrameStoredByName ==
  (SaveReturned /\ last.df.cols = PipelineColumns /\ last.df.rows # <<>>) =>
    /\ ~last.insertFailed
    /\ \A i \in 1..Len(last.df.cols) :
         (\E j \in 1..Len(TableColumns) : TableColumns[j] = last.df.cols[i])
           => TableColumns[i] = last.df.cols[i]

(***************************************************************************)
(* Properties of the scheduler (SpecScheduler, SpecStartRace).             *)
(***************************************************************************)
\* C23: start_scheduler returns False exactly when the scheduler was running
\* and True otherwise; a call that returns False leaves the instance as it
\* was; after a call that returns True is_running is true, after
\* stop_scheduler it is false, and get_status reports is_running as it is.
C23_StartStopContract ==
  /\ sched.op = "start" =>
       /\ sched.before.is_running => ret = Returned(<<FALSE>>)
       /\ ~sched.before.is_running => ret = Returned(<<TRUE>>)
       /\ ret = Returned(<<FALSE>>) => sched.obj = sched.before
       /\ ret = Returned(<<TRUE>>) => sched.obj.is_running
  /\ sched.op = "stop" => ~sched.obj.is_running
  /\ sched.op = "status" => ret.val.is_running = sched.obj.is_running

C23_Witness ==
  /\ sched.op = "start"
  /\ sched.before.is_running
  /\ sched.before.fetch_count = 1
  /\ ret = Returned(<<FALSE>>)
  /\ sched.obj.stored = 1

\* C28: the scheduler never holds more than one job with id 'frequent_fetch',
\* waiting or in the job store, however two start_scheduler calls interleave.
C28_AtMostOneFetchJob ==
  sched.obj.pending + sched.obj.stored <= 1

(***************************************************************************)
(* Properties of a run of the pipeline (SpecPipeline, SpecOverlap).        *)
(***************************************************************************)
Stages == <<"Polling", "Scraping", "Translating", "Persisting", "Idle">>

JobRun == pipeline["scheduler"]

\* The job has run to its end and has not been fired again.
JobFinished == JobRun.pc = "idle" /\ JobRun.log # <<>>

IsPrefix(s, t) == Len(s) <= Len(t) /\ \A i \in 1..Len(s) : s[i] = t[i]

InLog(stage) == \E i \in 1..Len(JobRun.log) : JobRun.log[i] = stage

\* The frame after drop_duplicates, before any scrape.
Candidates == DropDuplicates(fetch.articles)

\* C21 as stated: every run of the job that has ended went through Polling,
\* Scraping, Translating, Persisting and back to Idle, with one save_to_db.
C21_EveryRunThroughAllStages ==
  JobFinished => JobRun.log = Stages /\ JobRun.saves = 1

\* C21, amended: the stages are entered in the fixed order; every feed is
\* polled before the first scrape, every row scraped before the first
\* translation, every summary translated before the one save_to_db; a run
\* that collected an article goes through all stages, and a run that
\* collected none goes from Polling straight back to Idle without a
\* save_to_db.
C21_StagesInOrder ==
  /\ \/ IsPrefix(JobRun.log, Stages)
     \/ JobRun.log = <<"Polling", "Idle">> /\ fetch.articles = <<>>
  /\ InLog("Scraping") =>
       fetch.i > Len(Feeds) /\ fetch.polled = {Feeds[i] : i \in 1..Len(Feeds)}
  /\ InLog("Translating") => Len(JobRun.outcomes) = Len(JobRun.df)
  /\ InLog("Persisting") =>
       Len(JobRun.replies) = Len(JobRun.df) /\ JobRun.saves = 1
  /\ JobRun.saves <= 1
  /\ (JobFinished /\ fetch.articles # <<>>) => JobRun.log = Stages
  /\ (JobFinished /\ fetch.articles = <<>>) =>
       JobRun.log = <<"Polling", "Idle">> /\ JobRun.saves = 0

C21_Witness ==
  /\ JobFinished
  /\ JobRun.log = Stages
  /\ Len(JobRun.df) = 2
  /\ fetch.failed # {}
  /\ sched.obj.fetch_count = 1

\* C25: a run that collected an article hands save_to_db a frame with one
\* row per deduplicated candidate, in order; each row is its candidate with
\* what its own scrape and its own translation gave, and a row whose scrape
\* failed has content "" and word_count 0.
C25_EveryCandidateSaved ==
  (JobFinished /\ fetch.articles # <<>>) =>
    /\ JobRun.saves = 1
    /\ Len(JobRun.batch[1]) = Len(Candidates)
    /\ \A k \in 1..Len(Candidates) :
         LET row == JobRun.batch[1][k]
         IN  /\ \A f \in {"title", "summary", "link", "published", "feed",
                          "url"} : row[f] = Candidates[k][f]
             /\ row = TranslatedRow(
                        ScrapedRow(Candidates[k], JobRun.outcomes[k],
                                   fetch.offset),
                        JobRun.env, JobRun.replies[k])
             /\ JobRun.outcomes[k].kind # "response" =>
                  row.content = "" /\ row.word_count = 0

C25_Witness ==
  /\ JobFinished
  /\ JobRun.saves = 1
  /\ Len(JobRun.batch[1]) = 2
  /\ JobRun.outcomes[1].kind # "response"
  /\ JobRun.outcomes[2].kind = "response"
  /\ JobRun.batch[1][1].content = ""
  /\ JobRun.batch[1][2].content # ""
  /\ JobRun.replies[2].kind = "raises"
  /\ JobRun.env = {"API_KEY"}

\* C22: the job and the dashboard's fetch handler are never both under way.
C22_RunsNeverOverlap ==
  ~(pipeline["scheduler"].pc # "idle" /\ pipeline["dashboard"].pc # "idle")

====
